---- MODULE Spec2Model ----
(***************************************************************************)
(* SeniorAutoPonto: the trigger-and-execution engine of the two variants   *)
(* of the script.                                                          *)
(*                                                                         *)
(*   "poll"  : src/unnamed/part_000, one cron job '* * * * *' whose        *)
(*             callback walks config.schedules every minute and tests a    *)
(*             +-30 s window around base + offset, the offset being drawn  *)
(*             again at every tick;                                        *)
(*   "timer" : src/index.js, one cron job per schedule entry               *)
(*             ('mm hh * * WEEKDAYS') whose callback draws the offset and  *)
(*             arms setTimeout(max(delay, 0)).                             *)
(*                                                                         *)
(* Time is in seconds since 00:00:00 of day 0 in the configured timezone   *)
(* (no DST transition inside the horizon).  A remote call (login, employee *)
(* query, clocking post, webhook post) is answered at any later step, with *)
(* success or failure chosen by the environment.  Code between two awaits  *)
(* runs without interleaving, as on the node event loop.  A callback reads  *)
(* the clock at a whole second or a fraction of a second after it (the     *)
(* flags `late`), which decides the window test of part_000 and the        *)
(* vacation test of both variants on their bounds.  The timer of index.js  *)
(* runs at the second it was set for.  Any number of remote calls may stay *)
(* unanswered while time passes.  The payload of the outcome               *)
(* events (timestamps, offsetSeconds, response) is not modelled, nor is    *)
(* the catch block around the scheduling code of index.js (lines 343-349), *)
(* which no modelled step can reach.                                       *)
(*                                                                         *)
(* Both variants log in through one module-level cookieJar: the token of a *)
(* login is read back from the jar once the login post has resolved.  The  *)
(* jar holds at most one com.senior.token cookie for the login URL: one    *)
(* with an access_token, one without, or one that does not decode; a       *)
(* cookie is named after the callback whose post it answers, and it may    *)
(* run out from the second after it was stored.  The employee query and    *)
(* the clocking post go through the same client, so a Set-Cookie of their  *)
(* answers goes into the jar as well.  The head of an answer may arrive,   *)
(* and its Set-Cookie be stored, while the callback still awaits the post: *)
(* other callbacks run in between and read the jar.                        *)
(*                                                                         *)
(* Specifications: SpecPoll and SpecTimer (one schedule entry, one day),   *)
(* SpecTwoPoll and SpecTwoTimer (two entries one minute apart),            *)
(* SpecPollDays and SpecTimerDays (one day more), SpecMidnight (a 23:59     *)
(* entry before a vacation), SpecRetry (every kind of MAX_RETRIES),        *)
(* SpecVac (isVacationPeriod alone) and SpecJitter (the offset draw        *)
(* alone).                                                                 *)
(***************************************************************************)
EXTENDS Integers, Sequences, FiniteSets, TLC

VARIABLES
  cfg,        \* the config object (immutable after Init)
  clock,      \* wall clock, seconds since day 0 00:00:00
  cronDone,   \* cron jobs whose callback already ran at instant `clock`
  jobs,       \* suspended async callbacks (tick handlers, timers, firings)
  count,      \* history: calls and outcome events per <<kind, schedule, day>>
  callDays,   \* history: calendar days on which a remote call or outcome happened
  reasons,    \* history: the reason strings of the skipped outcomes sent
  lastFiring, \* history: summary of the firing whose outcome was emitted last
  anyFail,    \* history: some remote call has failed
  vac,        \* SpecVac: the result of the last isVacationPeriod() call
  cookieJar,  \* the com.senior.token cookie held by the module-level cookieJar
  notifyFail, \* history: some webhook post has failed (logged by sendWebhook)
  jitter      \* SpecJitter: the last offset drawn

vars == <<cfg, clock, cronDone, jobs, count, callDays, reasons, lastFiring, anyFail, vac,
          cookieJar, notifyFail, jitter>>

---------------------------------------------------------------------------
(* Bounds of the model *)

MaxDay == 0          \* the last day simulated is MaxDay (or MaxDay + 1, see lastDay)
MaxJitter == 31      \* the largest RANDOM_OFFSET tried
CountCap == 2        \* the history counters stop counting here
MaxRetriesBound == 3 \* MAX_RETRIES ranges over 1..MaxRetriesBound

WideJitter == 64     \* a RANDOM_OFFSET above one minute (the default is 300)

\* Math.random() is k / RandomSteps for k in 0..RandomSteps-1: fine enough for
\* every value of floor(random * r * 2) to come out for every RANDOM_OFFSET r
\* tried (at least 2 * r steps are needed)
RandomSteps == 2 * (IF MaxJitter > WideJitter THEN MaxJitter ELSE WideJitter)

(* Program constants *)

HalfWindow == 30     \* part_000: punchTime -+ 30 seconds
RetryDelay == 5      \* setTimeout(resolve, 5000)

\* the history of a firing's duration stops counting here
SpanCap == RetryDelay * MaxRetriesBound

DayLen == 24 * 60 * 60
Null == -1           \* null / unset (process.env.X ? ... : null)
NaN == -1000         \* parseInt(MAX_RETRIES, 10) of a text that is no number

Days == 0..cfg.lastDay        \* the days simulated
VacDates == 0..(MaxDay + 1)   \* the dates VACATION_START / VACATION_END range over
Horizon == (cfg.lastDay + 1) * DayLen - 1   \* 23:59:59 of the last day

OneSchedule == <<480>>         \* SCHEDULES=08:00 as minutes of the day
TwoSchedules == <<480, 481>>   \* SCHEDULES=08:00,08:01
LateSchedule == <<1439>>       \* SCHEDULES=23:59
Schedules == cfg.schedules
NSched == Len(Schedules)

AllDays == 0..6
WorkDays == 1..5            \* WEEKDAYS=1-5 as node-cron expands it
Weekend == {0, 6}           \* WEEKDAYS=0,6

---------------------------------------------------------------------------
(* Calendar helpers (moment-timezone) *)

DateOf(t) == t \div DayLen

\* day 0 is a Friday (0 = Sunday, as in node-cron and moment#day)
Weekday(d) == (5 + d) % 7

\* moment.tz('YYYY-MM-DD', tz): the instant 00:00:00.000 of that date
MomentTz(date) == IF date = Null THEN Null ELSE date * DayLen

\* moment().tz(tz).set({hour, minute, second: 0, millisecond: 0}) evaluated at t
BaseTime(t, i) == DateOf(t) * DayLen + Schedules[i] * 60

\* mutant: a range check that puts its two bounds in order first
IsBetweenOrdered(m, from, to, inclusivity) ==
  LET lo == IF from <= to THEN from ELSE to
      hi == IF from <= to THEN to ELSE from
  IN /\ (IF inclusivity[1] = "(" THEN m > lo ELSE ~(m < lo))
     /\ (IF inclusivity[2] = ")" THEN m < hi ELSE ~(m > hi))

\* moment#isBetween(from, to, null, inclusivity)
IsBetween(m, from, to, inclusivity) ==
  /\ (IF inclusivity[1] = "(" THEN m > from ELSE ~(m < from))
  /\ (IF inclusivity[2] = ")" THEN m < to ELSE ~(m > to))

\* function isVacationPeriod() evaluated when moment() gives second now, or,
\* when late, a fraction of a second after it (the bounds are whole seconds,
\* so the instants are compared in half seconds)
IsVacationPeriodAt(c, now, late) ==
  IF c.vacationStart = Null \/ c.vacationEnd = Null THEN FALSE
  ELSE IsBetween(2 * now + (IF late THEN 1 ELSE 0),
                 2 * c.vacationStart, 2 * c.vacationEnd, <<"[", "]">>)

isVacationPeriod(late) == IsVacationPeriodAt(cfg, clock, late)

\* mutant: the draw rounded to the nearest integer (Math.round for Math.floor)
JitterOffsetRounded(r, k) == ((2 * k * r * 2 + RandomSteps) \div (2 * RandomSteps)) - r

\* Math.floor(Math.random() * randomOffset * 2) - randomOffset with
\* Math.random() = k / RandomSteps
JitterOffset(r, k) == ((k * r * 2) \div RandomSteps) - r

\* the values the draw can give, for every RANDOM_OFFSET tried
OffsetTable ==
  [r \in (0..MaxJitter) \cup {WideJitter} |->
     {JitterOffset(r, k) : k \in 0..(RandomSteps - 1)}]

Offsets(r) == OffsetTable[r]

\* now.isBetween(punchTime - 30 s, punchTime + 30 s)   (exclusive)
\* now is the instant moment() gave the tick handler: the minute `now`, or,
\* when late, a fraction of a second after it (the bounds are whole seconds,
\* so the instants are compared in half seconds)
InWindow(now, late, punchTime) ==
  IsBetween(2 * now + (IF late THEN 1 ELSE 0),
            2 * (punchTime - HalfWindow), 2 * (punchTime + HalfWindow), <<"(", ")">>)

\* node-cron day-of-week field of 'mm hh * * WEEKDAYS'
CronDayMatches(d) == Weekday(d) \in cfg.weekdays

---------------------------------------------------------------------------
(* State *)

Variants == {"poll", "timer"}

Kinds == {"fired", "auth", "submit", "success", "error", "skipped", "post", "draw"}
Keys == Kinds \X (1..NSched) \X Days

RemotePcs == {"auth", "userdata", "submit", "notify"}

\* the login of a callback: a callback (the tick handler of instant now at
\* entry i, the cron callback of entry i run at instant now) makes at most one
\* login, and the cookie values differ from login to login
TokenOf(j) == <<j.i, j.now>>

NoLogin == <<0, 0>>

\* what `token` holds before authenticate() has returned
NoToken == [kind |-> "none", by |-> NoLogin]

\* the jar holds no com.senior.token cookie
NoCookie == [kind |-> "none", by |-> NoLogin, fresh |-> FALSE]

NoDraw == [called |-> FALSE, offset |-> 0]

NoFiring == [status |-> "none", i |-> 0, day |-> 0, attempt |-> 0, delays |-> 0,
             fails |-> 0, authOk |-> FALSE, posted |-> FALSE, span |-> 0]

\* reason of the skipped outcome: part_000 line 239, index.js line 301
SkipReason == IF cfg.variant = "poll" THEN "vacation_period" ELSE "Modo ferias ativo"

\* the config object; lastDay is no setting of the program but the last day
\* over which the run is followed
Configs ==
  [variant : Variants,
   startAt : {0},
   schedules : {OneSchedule, TwoSchedules},
   lastDay : {0, MaxDay, MaxDay + 1},
   weekdays : {AllDays, WorkDays, Weekend},
   randomOffset : {0, 2, MaxJitter},
   vacationStart : {Null} \cup {MomentTz(d) : d \in VacDates},
   vacationEnd : {Null} \cup {MomentTz(d) : d \in VacDates},
   webhookUrl : BOOLEAN,
   maxRetries : 1..MaxRetriesBound]

\* validateConfig(): both vacation bounds or none
ValidConfig(c) == (c.vacationStart = Null) = (c.vacationEnd = Null)

\* the state after main() has called schedulePunches(), at instant startAt of
\* day 0 (00:00:00 unless a specification starts the program later in the day)
Started(configs) ==
  /\ cfg \in {c \in configs : ValidConfig(c)}
  /\ clock = cfg.startAt
  /\ cronDone = {}
  /\ jobs = {}
  /\ count = [k \in Keys |-> 0]
  /\ callDays = {}
  /\ reasons = {}
  /\ lastFiring = NoFiring
  /\ anyFail = FALSE
  /\ vac = [called |-> FALSE, late |-> FALSE, result |-> FALSE]
  /\ cookieJar = NoCookie
  /\ notifyFail = FALSE
  /\ jitter = NoDraw

Bump(c, kind, i, d) == [c EXCEPT ![<<kind, i, d>>] = IF @ < CountCap THEN @ + 1 ELSE @]

\* the tick handler of part_000 about to evaluate schedule i (for ... of)
LoopJob(now, late, i) ==
  [kind |-> "tick", pc |-> "loop", i |-> i, now |-> now, late |-> late, day |-> 0, base |-> 0,
   punchTime |-> 0, due |-> 0, t0 |-> 0, attempt |-> 0, delays |-> 0, fails |-> 0,
   status |-> "none", auths |-> 0, token |-> NoToken, posted |-> FALSE]

\* where a callback goes on once its sendWebhook() await is over: part_000
\* continues the for loop, index.js returns.  The result is the set holding
\* the callback's next suspended state, empty when it has run to its end.
Continue(j) ==
  IF j.kind = "tick" /\ j.i < NSched THEN {LoopJob(j.now, j.late, j.i + 1)} ELSE {}

\* sendWebhook(data): returns at once without WEBHOOK_URL, else awaits axios.post
SendWebhook(j, status) ==
  IF cfg.webhookUrl THEN {[j EXCEPT !.pc = "notify", !.status = status]}
  ELSE Continue(j)

\* the axios.post of sendWebhook, counted per schedule entry and day
WebhookPosts(c, j) == IF cfg.webhookUrl THEN Bump(c, "post", j.i, j.day) ELSE c

Summary(j, status, authOk) ==
  [status |-> status, i |-> j.i, day |-> j.day, attempt |-> j.attempt,
   delays |-> j.delays, fails |-> j.fails, authOk |-> authOk, posted |-> j.posted,
   span |-> IF status = "skipped" THEN 0
            ELSE IF clock - j.t0 < SpanCap THEN clock - j.t0 ELSE SpanCap]

---------------------------------------------------------------------------
(* One firing: authenticate(), punchClock(token), sendWebhook(outcome).     *)
(* part_000 lines 244-263 and index.js lines 318-341 are the same code.     *)

\* the catch block / the line after punchClock: one outcome event is built
\* and handed to sendWebhook
\* (j is the suspended callback, nj its record as the outcome is built)
Emit(j, nj, status, authOk) ==
  /\ count' = WebhookPosts(Bump(count, status, nj.i, nj.day), nj)
  /\ callDays' = callDays \cup {DateOf(clock)}
  /\ lastFiring' = Summary(nj, status, authOk)
  /\ jobs' = (jobs \ {j}) \cup SendWebhook(nj, status)

\* const token = await authenticate(): the callback starts the login post
\* (after the last schedule entry no window test reads `now` again: the
\* fraction of a second is dropped from the record)
StartFiring(j) ==
  [j EXCEPT !.pc = "auth", !.t0 = clock, !.attempt = 0, !.delays = 0, !.fails = 0,
            !.status = "none", !.auths = 1, !.posted = FALSE,
            !.late = IF j.i < NSched THEN @ ELSE FALSE]

\* the com.senior.token cookie an answer to a post of `client` may carry in
\* its Set-Cookie:
\*   none      no such cookie (or one for another path or domain)
\*   token     its value decodes to a JSON object with an access_token
\*   tokenless its value decodes and parses (an object, a number, a text) but
\*             has no access_token: tokenData.access_token is undefined
\*   garbled   decodeURIComponent or JSON.parse throws on its value, or the
\*             value parses to null and tokenData.access_token throws
\*   removal   a cookie that has run out already (Max-Age=0, Expires in the
\*             past): the jar holds no such cookie afterwards
SetCookies == {"none", "token", "tokenless", "garbled", "removal"}

\* the answers of the login post: resolved (2xx) or rejected (network error
\* or a status that is no 2xx), each with or without a Set-Cookie of
\* com.senior.token; expired: the cookie the jar held before has run out by
\* the time the jar is read
AuthAnswers == [ok : BOOLEAN, cookie : SetCookies, expired : BOOLEAN]

\* the answers of the employee query and of the clocking post: resolved or
\* rejected, each with or without a Set-Cookie of com.senior.token
Answers == [ok : BOOLEAN, cookie : SetCookies]

\* the jar once the Set-Cookie of an answer to a post of callback j is
\* stored; a cookie is fresh while the clock shows the second it was stored in
Stored(j, cookie) ==
  CASE cookie = "none" -> cookieJar
    [] cookie = "removal" -> NoCookie
    [] cookie = "garbled" -> [kind |-> cookie, by |-> NoLogin, fresh |-> TRUE]
    [] OTHER -> [kind |-> cookie, by |-> TokenOf(j), fresh |-> TRUE]

\* cookieJar.getCookiesSync(url): a cookie that has run out is dropped from
\* the jar and not returned
Found(jar, expired) == IF expired THEN NoCookie ELSE jar

\* the head of an answer to a post of `client` (the login, the employee
\* query, the clocking post; a redirect on the way to it) arrives with a
\* Set-Cookie of com.senior.token: the cookie goes into the shared jar while
\* the callback still awaits the post
AnswerHead(j, cookie) ==
  /\ j.pc \in {"auth", "userdata", "submit"}
  /\ cookie # "none"
  /\ cookieJar' = Stored(j, cookie)
  /\ UNCHANGED <<cfg, clock, cronDone, jobs, count, callDays, reasons, lastFiring, anyFail,
                 vac, jitter, notifyFail>>

\* the login post is answered.  A Set-Cookie of the answer goes into the
\* shared cookieJar (the rejected answer's too); once the post has resolved,
\* cookieJar.getCookiesSync() reads the jar back: authenticate() returns
\* tokenData.access_token of the cookie found there, whichever login stored
\* it and undefined when it has none, and punchClock(token, 1) starts and
\* awaits getUserData(token); without a token cookie in the jar, with one
\* that does not decode, or when the post is rejected, authenticate() throws
\* into the caller's catch.  A cookie can have run out only when it was
\* stored before the current second.
AuthDone(j, res) ==
  /\ j.pc = "auth"
  /\ res.expired =>
       (res.ok /\ res.cookie = "none" /\ cookieJar # NoCookie /\ ~cookieJar.fresh)
  /\ LET jar == IF res.ok THEN Found(Stored(j, res.cookie), res.expired)
                ELSE Stored(j, res.cookie)
     IN /\ cookieJar' = jar
        /\ IF res.ok /\ jar.kind \in {"token", "tokenless"}
           THEN /\ jobs' = (jobs \ {j}) \cup
                      {[j EXCEPT !.pc = "userdata", !.attempt = 1,
                                 !.token = [kind |-> jar.kind, by |-> jar.by],
                                 !.punchTime = 0]}
                /\ callDays' = callDays \cup {DateOf(clock)}
                /\ UNCHANGED <<count, lastFiring, anyFail>>
           ELSE /\ Emit(j, [j EXCEPT !.punchTime = 0], "error", FALSE)
                /\ anyFail' = TRUE
  /\ UNCHANGED <<cfg, clock, cronDone, reasons, vac, jitter, notifyFail>>

\* the employee query is answered (a Set-Cookie of the answer goes into the
\* jar); getUserData is awaited outside punchClock's try: its failure leaves
\* punchClock without a retry
UserDataDone(j, res) ==
  /\ j.pc = "userdata"
  /\ cookieJar' = Stored(j, res.cookie)
  /\ IF res.ok
     THEN /\ jobs' = (jobs \ {j}) \cup {[j EXCEPT !.pc = "submit"]}
          /\ count' = Bump(count, "submit", j.i, j.day)
          /\ callDays' = callDays \cup {DateOf(clock)}
          /\ UNCHANGED <<lastFiring, anyFail>>
     ELSE /\ Emit(j, j, "error", TRUE)
          /\ anyFail' = TRUE
  /\ UNCHANGED <<cfg, clock, cronDone, reasons, vac, jitter, notifyFail>>

\* mutant: one retry too many (<= for <)
MayRetryOffByOne(attempt) == attempt <= cfg.maxRetries

\* mutant: retries stop only when the attempt number equals MAX_RETRIES
MayRetryUntilEqual(attempt) == attempt # cfg.maxRetries

\* if (attempt < config.maxRetries); a comparison with NaN is false
MayRetry(attempt) == cfg.maxRetries # NaN /\ attempt < cfg.maxRetries

\* mutant: the retry is made without waiting
RetryDueNoWait(now) == now

\* await new Promise(resolve => setTimeout(resolve, 5000))
RetryDue(now) == now + RetryDelay

\* the clocking post is answered (a Set-Cookie of the answer goes into the
\* jar): return res.data, or the catch block of punchClock (retry after 5 s,
\* or throw)
SubmitDone(j, res) ==
  /\ j.pc = "submit"
  /\ cookieJar' = Stored(j, res.cookie)
  /\ IF res.ok
     THEN /\ Emit(j, [j EXCEPT !.posted = TRUE], "success", TRUE)
          /\ UNCHANGED anyFail
     ELSE /\ anyFail' = TRUE
          /\ IF MayRetry(j.attempt)
             THEN /\ jobs' = (jobs \ {j}) \cup
                       {[j EXCEPT !.pc = "delay", !.due = RetryDue(clock),
                                  !.delays = @ + 1, !.fails = @ + 1]}
                  /\ UNCHANGED <<count, callDays, lastFiring>>
             ELSE Emit(j, [j EXCEPT !.fails = @ + 1], "error", TRUE)
  /\ UNCHANGED <<cfg, clock, cronDone, reasons, vac, jitter, notifyFail>>

\* the 5 s timer of the catch block fires: return punchClock(token, attempt + 1),
\* which awaits getUserData(token) again with the same token
DelayDone(j) ==
  /\ j.pc = "delay"
  /\ clock >= j.due
  /\ jobs' = (jobs \ {j}) \cup {[j EXCEPT !.pc = "userdata", !.attempt = @ + 1]}
  /\ callDays' = callDays \cup {DateOf(clock)}
  /\ UNCHANGED <<cfg, clock, cronDone, count, reasons, lastFiring, anyFail, vac, cookieJar, jitter, notifyFail>>

\* mutant: a failed delivery is posted again
NotifyDoneRetry(j, ok) ==
  /\ j.pc = "notify"
  /\ notifyFail' = (notifyFail \/ ~ok)
  /\ IF ok
     THEN /\ jobs' = (jobs \ {j}) \cup Continue(j)
          /\ UNCHANGED count
     ELSE /\ count' = Bump(count, "post", j.i, j.day)
          /\ UNCHANGED jobs
  /\ UNCHANGED <<cfg, clock, cronDone, callDays, reasons, lastFiring, anyFail, vac, cookieJar, jitter>>

\* mutant: a failed delivery of the success event is thrown into the catch
\* block of the callback, which builds an error event as well
NotifyDoneThrows(j, ok) ==
  /\ j.pc = "notify"
  /\ notifyFail' = (notifyFail \/ ~ok)
  /\ IF ~ok /\ j.status = "success"
     THEN Emit(j, j, "error", TRUE)
     ELSE /\ jobs' = (jobs \ {j}) \cup Continue(j)
          /\ UNCHANGED <<count, callDays, lastFiring>>
  /\ UNCHANGED <<cfg, clock, cronDone, reasons, anyFail, vac, cookieJar, jitter>>

\* the webhook post is answered; sendWebhook logs a failure and swallows it
NotifyDone(j, ok) ==
  /\ j.pc = "notify"
  /\ notifyFail' = (notifyFail \/ ~ok)
  /\ jobs' = (jobs \ {j}) \cup Continue(j)
  /\ UNCHANGED <<cfg, clock, cronDone, count, callDays, reasons, lastFiring, anyFail, vac, cookieJar, jitter>>

---------------------------------------------------------------------------
(* The vacation gate, shared by both callbacks:                             *)
(*   if (isVacationPeriod()) { await sendWebhook({status: 'skipped'}) ... } *)

\* (c is the history of calls as the gate is reached: part_000 has drawn the
\* offset by then, index.js has not)
Skip(j, nj, c) ==
  /\ count' = WebhookPosts(Bump(Bump(c, "skipped", nj.i, nj.day), "fired", nj.i, nj.day), nj)
  /\ callDays' = callDays \cup {DateOf(clock)}
  /\ reasons' = reasons \cup {SkipReason}
  /\ lastFiring' = Summary(nj, "skipped", FALSE)
  /\ jobs' = (jobs \ j) \cup SendWebhook(nj, "skipped")

---------------------------------------------------------------------------
(* part_000: cron.schedule('* * * * *', async () => {...})                  *)

\* the every-minute cron job fires: const now = moment().tz(...); node-cron
\* runs the handler at the minute or some milliseconds after it
Tick ==
  /\ cfg.variant = "poll"
  /\ clock % 60 = 0
  /\ 0 \notin cronDone
  /\ cronDone' = cronDone \cup {0}
  /\ \E late \in BOOLEAN : jobs' = jobs \cup {LoopJob(clock, late, 1)}
  /\ UNCHANGED <<cfg, clock, count, callDays, reasons, lastFiring, anyFail, vac, cookieJar, jitter, notifyFail>>

\* one iteration of for (const schedule of config.schedules), up to its
\* first await or to the end of the iteration; isVacationPeriod() reads the
\* clock again (vlate: a fraction of a second after the second shown, which
\* it is when the handler itself began late in this second)
EvalSchedule(j, offset, vlate) ==
  /\ j.pc = "loop"
  /\ (clock = j.now /\ j.late) => vlate
  /\ LET baseTime == BaseTime(clock, j.i)
         punchTime == baseTime + offset
         nj == [j EXCEPT !.day = DateOf(baseTime), !.base = baseTime]
     IN IF InWindow(j.now, j.late, punchTime)
        THEN IF isVacationPeriod(vlate)
             THEN /\ Skip({j}, nj, Bump(count, "draw", nj.i, nj.day))
                  /\ UNCHANGED anyFail
             ELSE /\ jobs' = (jobs \ {j}) \cup {StartFiring(nj)}
                  /\ count' = Bump(Bump(Bump(count, "draw", nj.i, nj.day),
                                         "auth", nj.i, nj.day), "fired", nj.i, nj.day)
                  /\ callDays' = callDays \cup {DateOf(clock)}
                  /\ UNCHANGED <<reasons, lastFiring, anyFail>>
        ELSE /\ jobs' = (jobs \ {j}) \cup Continue(j)
             /\ count' = Bump(count, "draw", nj.i, nj.day)
             /\ UNCHANGED <<callDays, reasons, lastFiring, anyFail>>
  /\ UNCHANGED <<cfg, clock, cronDone, vac, cookieJar, jitter, notifyFail>>

---------------------------------------------------------------------------
(* index.js: cron.schedule(`${minute} ${hour} * * ${config.weekdays}`, ...)  *)

\* the callback of index.js suspended on its setTimeout; punchTime (logged by
\* 'Agendando para ...') is kept until the login post is answered
TimerJob(i, baseTime, punchTime, due) ==
  [kind |-> "cron", pc |-> "timer", i |-> i, now |-> clock, late |-> FALSE,
   day |-> DateOf(baseTime),
   base |-> baseTime, punchTime |-> punchTime, due |-> due, t0 |-> 0, attempt |-> 0,
   delays |-> 0, fails |-> 0, status |-> "none", auths |-> 0, token |-> NoToken,
   posted |-> FALSE]

\* mutant: the timer waits for the size of the delay, so that a negative
\* offset is run as late as a positive one
TimerDueAbs(now, punchTime) ==
  now + (IF punchTime - now > 0 THEN punchTime - now ELSE now - punchTime)

\* setTimeout(..., Math.max(delay, 0)) with delay = punchTime - now
TimerDue(now, punchTime) == now + (IF punchTime - now > 0 THEN punchTime - now ELSE 0)

\* node-cron has the callback of schedule i to run now: it is hh:mm:00 of a
\* day of WEEKDAYS and the callback has not run yet at this instant
CronPending(i) ==
  /\ clock = BaseTime(clock, i)
  /\ CronDayMatches(DateOf(clock))
  /\ i \notin cronDone

\* the cron job of schedule i fires at hh:mm:00 of a day of WEEKDAYS, or
\* (late) some milliseconds after it
CronFire(i, offset, late) ==
  /\ cfg.variant = "timer"
  /\ CronPending(i)
  /\ cronDone' = cronDone \cup {i}
  /\ LET baseTime == BaseTime(clock, i)
         punchTime == baseTime + offset
         nj == TimerJob(i, baseTime, punchTime, TimerDue(clock, punchTime))
     IN IF isVacationPeriod(late)
        THEN /\ offset = 0      \* the gate returns before the draw
             /\ Skip({}, nj, count)
        ELSE /\ jobs' = jobs \cup {nj}
             /\ count' = Bump(count, "draw", i, DateOf(baseTime))
             /\ UNCHANGED <<callDays, reasons, lastFiring>>
  /\ UNCHANGED <<cfg, clock, anyFail, vac, cookieJar, jitter, notifyFail>>

\* the setTimeout callback runs: const token = await authenticate()
TimerFire(j) ==
  /\ j.pc = "timer"
  /\ clock >= j.due
  /\ jobs' = (jobs \ {j}) \cup {StartFiring(j)}
  /\ count' = Bump(Bump(count, "auth", j.i, j.day), "fired", j.i, j.day)
  /\ callDays' = callDays \cup {DateOf(clock)}
  /\ UNCHANGED <<cfg, clock, cronDone, reasons, lastFiring, anyFail, vac, cookieJar, jitter, notifyFail>>

---------------------------------------------------------------------------
(* The passage of time.  The clock moves from one instant at which a cron   *)
(* job or a timer can run to the next one; the minute ticks of part_000 at  *)
(* which no draw can put any schedule inside its window only draw their     *)
(* offsets, and the step that passes over them counts these draws.          *)

Min(S) == CHOOSE x \in S : \A y \in S : x <= y

\* the least and the largest draw for every RANDOM_OFFSET tried
OffsetReach ==
  [r \in DOMAIN OffsetTable |->
     [lo |-> Min(OffsetTable[r]), hi |-> 0 - Min({0 - o : o \in OffsetTable[r]})]]

\* a minute tick of part_000 at t can fire some schedule for some draw: the
\* draws are the integers lo..hi and their windows overlap, so t is in some
\* window exactly when it is between the first and the last bound
RelevantTick(t) ==
  \E i \in 1..NSched : \E late \in BOOLEAN :
    LET reach == OffsetReach[cfg.randomOffset]
    IN IsBetween(2 * t + (IF late THEN 1 ELSE 0),
                 2 * (BaseTime(t, i) + reach.lo - HalfWindow),
                 2 * (BaseTime(t, i) + reach.hi + HalfWindow), <<"(", ")">>)

TickReach == (cfg.randomOffset + HalfWindow) \div 60 + 1

CronInstants ==
  IF cfg.variant = "poll"
  THEN {t \in {BaseTime(d * DayLen, i) + 60 * k :
                 d \in Days, i \in 1..NSched, k \in (-TickReach)..TickReach} :
          t >= 0 /\ RelevantTick(t)}
  ELSE {BaseTime(d * DayLen, i) : d \in {e \in Days : CronDayMatches(e)}, i \in 1..NSched}

Midnights == {d * DayLen : d \in 1..cfg.lastDay} \cup {Horizon}

TimerInstants == {j.due : j \in {k \in jobs : k.pc \in {"timer", "delay"}}}

\* something must run at the current instant before time passes
Urgent ==
  \/ \E j \in jobs : j.pc = "loop"
  \/ \E j \in jobs : j.pc \in {"timer", "delay"} /\ j.due <= clock
  \/ cfg.variant = "poll" /\ clock % 60 = 0 /\ 0 \notin cronDone
  \/ cfg.variant = "timer" /\ \E i \in 1..NSched : CronPending(i)

\* the minute ticks of part_000 that lie after the clock and before instant t:
\* the handler of each runs, draws an offset for every schedule entry, finds no
\* entry inside its window and ends
TicksBefore(t) ==
  IF cfg.variant = "poll" THEN ((t - 1) \div 60) - (clock \div 60) ELSE 0

\* the history of calls after n more draws for every entry on day d
DrawsPassed(c, n, d) ==
  [k \in Keys |-> IF k[1] = "draw" /\ k[3] = d /\ n > 0
                  THEN (IF c[k] + n > CountCap THEN CountCap ELSE c[k] + n)
                  ELSE c[k]]

Advance ==
  /\ ~Urgent
  /\ LET next == {t \in CronInstants \cup Midnights \cup TimerInstants :
                    t > clock /\ t <= Horizon}
     IN /\ next # {}
        /\ clock' = Min(next)
        /\ count' = DrawsPassed(count, TicksBefore(Min(next)), DateOf(clock))
  /\ cronDone' = {}
  /\ cookieJar' = [cookieJar EXCEPT !.fresh = FALSE]
  /\ UNCHANGED <<cfg, jobs, callDays, reasons, lastFiring, anyFail, vac, jitter, notifyFail>>

\* awaited promises settle only when no synchronous code is running
Settled == ~\E j \in jobs : j.pc = "loop"

\* the steps of a firing, the same code in both files
FiringNext ==
  \/ \E j \in jobs : \E cookie \in SetCookies : Settled /\ AnswerHead(j, cookie)
  \/ \E j \in jobs : \E res \in AuthAnswers : Settled /\ AuthDone(j, res)
  \/ \E j \in jobs : \E res \in Answers : Settled /\ UserDataDone(j, res)
  \/ \E j \in jobs : \E res \in Answers : Settled /\ SubmitDone(j, res)
  \/ \E j \in jobs : Settled /\ DelayDone(j)
  \/ \E j \in jobs : \E ok \in BOOLEAN : Settled /\ NotifyDone(j, ok)
  \/ Advance

(* part_000 *)

\* (day 0 is a Friday: one WEEKDAYS that holds it and one that does not; no
\* vacation, one that ends on day 0, or an empty range; with the webhook and
\* no retry, or with one retry and no webhook)
PollConfigs ==
  {c \in Configs : c.variant = "poll" /\ c.schedules = OneSchedule /\ c.lastDay = MaxDay
                   /\ c.weekdays \in {WorkDays, Weekend}
                   /\ c.randomOffset \in {0, MaxJitter}
                   /\ c.vacationEnd \in {Null, MomentTz(0)}
                   /\ \/ c.webhookUrl /\ c.maxRetries = 1
                      \/ ~c.webhookUrl /\ c.maxRetries = 2}

InitPoll == Started(PollConfigs)

NextPoll ==
  \/ Tick
  \/ \E j \in jobs : \E offset \in Offsets(cfg.randomOffset) : \E vlate \in BOOLEAN :
       EvalSchedule(j, offset, vlate)
  \/ FiringNext

SpecPoll == InitPoll /\ [][NextPoll]_vars

(* index.js *)

TimerConfigs ==
  {c \in Configs : c.variant = "timer" /\ c.schedules = OneSchedule /\ c.lastDay = 0
                   /\ c.weekdays \in {AllDays, Weekend}
                   /\ c.randomOffset \in {0, 2}
                   /\ c.vacationEnd \in {Null, MomentTz(1)}}

InitTimer == Started(TimerConfigs)

NextTimer ==
  \/ \E i \in 1..NSched : \E offset \in Offsets(cfg.randomOffset) : \E late \in BOOLEAN :
       CronFire(i, offset, late)
  \/ \E j \in jobs : TimerFire(j)
  \/ FiringNext

SpecTimer == InitTimer /\ [][NextTimer]_vars

(* isVacationPeriod() on its own: any configuration of the two bounds       *)
(* (validateConfig is not part of the function), any instant.               *)

VacConfigs ==
  {c \in Configs : c.variant = "poll" /\ c.schedules = OneSchedule /\ c.lastDay = MaxDay
                   /\ c.weekdays = AllDays /\ c.randomOffset = 0
                   /\ ~c.webhookUrl /\ c.maxRetries = 1}

\* instants of the days around the range: midnight, one second later, noon,
\* the last second
VacInstants ==
  {d * DayLen + s : d \in 0..(MaxDay + 2), s \in {0, 1, DayLen \div 2, DayLen - 1}}

InitVac ==
  /\ cfg \in VacConfigs
  /\ clock \in VacInstants
  /\ cronDone = {}
  /\ jobs = {}
  /\ count = [k \in Keys |-> 0]
  /\ callDays = {}
  /\ reasons = {}
  /\ lastFiring = NoFiring
  /\ anyFail = FALSE
  /\ vac = [called |-> FALSE, late |-> FALSE, result |-> FALSE]
  /\ cookieJar = NoCookie
  /\ notifyFail = FALSE
  /\ jitter = NoDraw

\* the clock reads second t (late: and a fraction) and isVacationPeriod() is
\* called
CheckVacation(t, late) ==
  /\ clock' = t
  /\ vac' = [called |-> TRUE, late |-> late, result |-> IsVacationPeriodAt(cfg, t, late)]
  /\ UNCHANGED <<cfg, cronDone, jobs, count, callDays, reasons, lastFiring, anyFail,
                 cookieJar, jitter, notifyFail>>

NextVac == \E t \in VacInstants : \E late \in BOOLEAN : CheckVacation(t, late)

SpecVac == InitVac /\ [][NextVac]_vars

(* index.js with two schedule entries one minute apart, on day 0 *)

TwoTimerConfigs ==
  {c \in Configs : c.variant = "timer" /\ c.schedules = TwoSchedules /\ c.lastDay = 0
                   /\ c.weekdays = AllDays /\ c.randomOffset = 0
                   /\ c.vacationStart = Null /\ c.vacationEnd = Null
                   /\ c.maxRetries <= 2}

InitTwoTimer == Started(TwoTimerConfigs)

SpecTwoTimer == InitTwoTimer /\ [][NextTimer]_vars

(* part_000 with two schedule entries one minute apart *)

\* (the program is started at 08:00:00; with the webhook, one retry and no
\* jitter, or with the widest jitter, no retry and no webhook)
TwoPollConfigs ==
  {[c EXCEPT !.startAt = TwoSchedules[1] * 60] :
     c \in {b \in Configs : b.variant = "poll" /\ b.schedules = TwoSchedules
                            /\ b.lastDay = MaxDay
                            /\ b.weekdays = AllDays
                            /\ b.vacationStart = Null /\ b.vacationEnd = Null
                            /\ \/ b.webhookUrl /\ b.maxRetries = 2 /\ b.randomOffset = 0
                               \/ ~b.webhookUrl /\ b.maxRetries = 1
                                  /\ b.randomOffset = MaxJitter}}

InitTwoPoll == Started(TwoPollConfigs)

SpecTwoPoll == InitTwoPoll /\ [][NextPoll]_vars

(* part_000 over one day more *)

\* (the program is started at 08:00:00; two days with the plainest firing, or
\* one day with a retry and the webhook)
PollDaysConfigs ==
  {[c EXCEPT !.startAt = OneSchedule[1] * 60] :
     c \in {b \in Configs : b.variant = "poll" /\ b.schedules = OneSchedule
                            /\ b.weekdays = AllDays /\ b.randomOffset = MaxJitter
                            /\ b.vacationStart = Null /\ b.vacationEnd = Null
                            /\ \/ b.lastDay = MaxDay + 1 /\ ~b.webhookUrl /\ b.maxRetries = 1
                               \/ b.lastDay = 0 /\ b.webhookUrl /\ b.maxRetries = 2}}

InitPollDays == Started(PollDaysConfigs)

SpecPollDays == InitPollDays /\ [][NextPoll]_vars

(* index.js over one day more *)

TimerDaysConfigs ==
  {c \in Configs : c.variant = "timer" /\ c.schedules = OneSchedule /\ c.lastDay = MaxDay + 1
                   /\ c.weekdays \in {AllDays, WorkDays} /\ c.randomOffset = 2
                   /\ c.vacationStart = Null /\ c.vacationEnd = Null
                   /\ c.webhookUrl /\ c.maxRetries = 2}

InitTimerDays == Started(TimerDaysConfigs)

SpecTimerDays == InitTimerDays /\ [][NextTimer]_vars

(* index.js with MAX_RETRIES set to a text that is no number, to a negative  *)
(* number, to 0 or to a positive number                                     *)

RetryValues == {NaN} \cup ((-1)..MaxRetriesBound)

RetryConfigs ==
  {[c EXCEPT !.maxRetries = m] :
     c \in {b \in Configs : b.variant = "timer" /\ b.schedules = OneSchedule
                            /\ b.lastDay = 0 /\ b.weekdays = AllDays
                            /\ b.randomOffset = 2
                            /\ b.vacationStart = Null /\ b.vacationEnd = Null
                            /\ b.maxRetries = 1},
     m \in RetryValues}

InitRetry == Started(RetryConfigs)

SpecRetry == InitRetry /\ [][NextTimer]_vars

(* index.js with SCHEDULES=23:59, a RANDOM_OFFSET above one minute and a     *)
(* vacation that starts on the next day                                     *)

MidnightConfigs ==
  {[c EXCEPT !.schedules = LateSchedule, !.randomOffset = WideJitter,
             !.vacationEnd = MomentTz(MaxDay + 2)] :
     c \in {b \in Configs : b.variant = "timer" /\ b.schedules = OneSchedule
                            /\ b.lastDay = MaxDay + 1 /\ b.weekdays = AllDays
                            /\ b.randomOffset = 0
                            /\ b.vacationStart = MomentTz(MaxDay + 1)
                            /\ b.vacationEnd = MomentTz(MaxDay + 1)
                            /\ \/ b.webhookUrl /\ b.maxRetries = 1
                               \/ ~b.webhookUrl /\ b.maxRetries = 2}}

InitMidnight == Started(MidnightConfigs)

SpecMidnight == InitMidnight /\ [][NextTimer]_vars

(* The jitter draw on its own: any RANDOM_OFFSET from 0 to MaxJitter, any    *)
(* value of Math.random().                                                   *)

JitterConfigs ==
  {[c EXCEPT !.randomOffset = r] : c \in VacConfigs, r \in 0..MaxJitter}

InitJitter ==
  /\ cfg \in {c \in JitterConfigs : ValidConfig(c)}
  /\ clock = 0
  /\ cronDone = {}
  /\ jobs = {}
  /\ count = [k \in Keys |-> 0]
  /\ callDays = {}
  /\ reasons = {}
  /\ lastFiring = NoFiring
  /\ anyFail = FALSE
  /\ vac = [called |-> FALSE, late |-> FALSE, result |-> FALSE]
  /\ cookieJar = NoCookie
  /\ notifyFail = FALSE
  /\ jitter = NoDraw

\* const offset = Math.floor(Math.random() * config.randomOffset * 2) - config.randomOffset
DrawOffset(k) ==
  /\ jitter' = [called |-> TRUE, offset |-> JitterOffset(cfg.randomOffset, k)]
  /\ UNCHANGED <<cfg, clock, cronDone, jobs, count, callDays, reasons, lastFiring, anyFail,
                 vac, cookieJar, notifyFail>>

NextJitter == \E k \in 0..(RandomSteps - 1) : DrawOffset(k)

SpecJitter == InitJitter /\ [][NextJitter]_vars

---------------------------------------------------------------------------
(* Claims *)

\* both VACATION_START and VACATION_END are set
VacationConfigured == cfg.vacationStart # Null /\ cfg.vacationEnd # Null

\* date d lies in the inclusive range of dates VACATION_START..VACATION_END
InVacationRange(d) ==
  /\ VacationConfigured
  /\ DateOf(cfg.vacationStart) <= d
  /\ d <= DateOf(cfg.vacationEnd)

\* day d is over and no callback is still suspended
DayDone(d) == clock >= (d + 1) * DayLen - 1 /\ jobs = {}

\* attempts made by a finished firing, a failed login counting as one attempt
AttemptsMade(f) == IF f.authOk THEN f.attempt ELSE 1

Finished(f) == f.status \in {"success", "error"}

\* C1: for every schedule entry and calendar day there is at most one firing
\* (a punch execution started or a skipped outcome emitted).
C1_AtMostOneFiring ==
  \A i \in 1..NSched : \A d \in Days : count[<<"fired", i, d>>] <= 1

\* C2: on a day inside the vacation range a schedule entry that fires gives
\* exactly one skipped outcome with reason "vacation_period", and neither the
\* login nor the clocking post is made for it.
C2_VacationSkipsOnce ==
  \A i \in 1..NSched : \A d \in Days :
    InVacationRange(d) =>
      /\ count[<<"auth", i, d>>] = 0
      /\ count[<<"submit", i, d>>] = 0
      /\ count[<<"fired", i, d>>] = count[<<"skipped", i, d>>]
      /\ count[<<"skipped", i, d>>] <= 1
      /\ reasons \subseteq {"vacation_period"}

\* C3: on a day whose weekday WEEKDAYS does not match, no login, no clocking
\* post and no outcome event happens.
C3_NoCallOnUnmatchedWeekday ==
  \A d \in callDays : Weekday(d) \in cfg.weekdays

\* C4: on a matched weekday, without vacation range and with every remote call
\* succeeding, a day ends with exactly one success outcome per schedule entry.
C4_ExactlyOneSuccess ==
  \A i \in 1..NSched : \A d \in Days :
    (DayDone(d) /\ ~VacationConfigured /\ ~anyFail /\ Weekday(d) \in cfg.weekdays)
      => count[<<"success", i, d>>] = 1

\* C5: isVacationPeriod() is true at every instant of every date of the
\* inclusive range VACATION_START..VACATION_END and false on every other date.
C5_VacationByDate ==
  (vac.called /\ VacationConfigured) => (vac.result = InVacationRange(DateOf(clock)))

\* C6: with VACATION_START later than VACATION_END, or with a bound missing,
\* isVacationPeriod() is false at every instant.
C6_EmptyRangeNeverMatches ==
  (vac.called /\ (~VacationConfigured \/ cfg.vacationStart > cfg.vacationEnd))
    => ~vac.result

\* C6 witness: the check has run with start > end at an instant between the two
C6_Witness ==
  /\ vac.called
  /\ ~vac.result
  /\ VacationConfigured
  /\ cfg.vacationEnd < clock
  /\ clock < cfg.vacationStart

\* C7: a firing reports an error only after maxRetries attempts, whichever
\* remote step failed.
C7_ErrorOnlyAfterAllAttempts ==
  lastFiring.status = "error" => AttemptsMade(lastFiring) = cfg.maxRetries

\* C8: no firing makes more than maxRetries attempts.
C8_AttemptsBounded ==
  /\ \A j \in jobs : j.attempt <= cfg.maxRetries
  /\ Finished(lastFiring) => AttemptsMade(lastFiring) <= cfg.maxRetries

\* C8 witness: a firing is in its attempt number maxRetries = 3 after two
\* failed clocking posts
C8_Witness ==
  \E j \in jobs : j.pc = "submit" /\ j.attempt = 3 /\ cfg.maxRetries = 3 /\ j.fails = 2

\* C9: a firing whose first k clocking posts fail and whose next one succeeds
\* reports success at attempt k + 1, with k < maxRetries, after exactly k
\* delays of 5 seconds each.
C9_SuccessAfterKFailures ==
  lastFiring.status = "success" =>
    /\ lastFiring.attempt = lastFiring.fails + 1
    /\ lastFiring.fails < cfg.maxRetries
    /\ lastFiring.delays = lastFiring.fails
    /\ lastFiring.span >= RetryDelay * lastFiring.fails

\* C9 witness: two failures, then success at attempt 3, two delays
C9_Witness ==
  /\ lastFiring.status = "success"
  /\ lastFiring.fails = 2
  /\ lastFiring.attempt = 3
  /\ lastFiring.delays = 2
  /\ cfg.maxRetries = 3

\* C10: a firing whose login fails while attempts remain, and in which no
\* other remote call fails, ends with status success.
C10_AuthFailureRetried ==
  (Finished(lastFiring) /\ ~lastFiring.authOk /\ lastFiring.fails = 0
     /\ AttemptsMade(lastFiring) < cfg.maxRetries)
    => lastFiring.status = "success"

\* C11 (as stated): every draw gives an offset with
\* -RANDOM_OFFSET <= offset < RANDOM_OFFSET, for every RANDOM_OFFSET >= 0.
C11_OffsetInHalfOpenRange ==
  jitter.called =>
    (-cfg.randomOffset <= jitter.offset /\ jitter.offset < cfg.randomOffset)

\* C11 (amended): every draw gives an offset with
\* -RANDOM_OFFSET <= offset < RANDOM_OFFSET for every RANDOM_OFFSET > 0, and
\* the offset 0 for RANDOM_OFFSET = 0.
C11_OffsetRange ==
  jitter.called =>
    IF cfg.randomOffset = 0 THEN jitter.offset = 0
    ELSE -cfg.randomOffset <= jitter.offset /\ jitter.offset < cfg.randomOffset

\* C11 witness: the draw has given the lowest offset of the largest range
C11_Witness ==
  /\ jitter.called
  /\ cfg.randomOffset = MaxJitter
  /\ jitter.offset = -MaxJitter

\* the punch execution of a firing is under way
Executing(j) == j.pc \in {"auth", "userdata", "submit", "delay"}

\* C12: under index.js the punch execution of a firing starts at the instant
\* nominal time + drawn offset, for every offset drawn, negative ones included.
C12_StartsAtEffectiveInstant ==
  \A j \in jobs : (j.kind = "cron" /\ Executing(j)) => j.t0 = j.punchTime

\* the latest instant (exclusive) at which the timer of schedule i on day d is due
DuePassed(i, d) == clock > BaseTime(d * DayLen, i) + cfg.randomOffset

\* an error outcome has been emitted on the day of callback j for another
\* schedule entry than j's
ErrorOfOther(j) ==
  \E i \in (1..NSched) \ {j.i} : count[<<"error", i, j.day>>] >= 1

\* an error outcome has been emitted for a nominal time that lies before the
\* nominal time of schedule entry i on day d
ErrorBefore(i, d) ==
  \E k \in 1..NSched : \E e \in Days :
    /\ count[<<"error", k, e>>] >= 1
    /\ BaseTime(e * DayLen, k) < BaseTime(d * DayLen, i)

\* C13: an error outcome of one firing neither prevents nor changes the
\* firing of another nominal time: once an error outcome has been emitted,
\* every later nominal time that comes on a day of WEEKDAYS still fires, and
\* the firing of another entry that starts after the error starts at the
\* instant its callback found it due (the tick instant in part_000, the
\* instant the timer was set for in index.js).
C13_ErrorLeavesOtherFiringsAlone ==
  /\ \A i \in 1..NSched : \A d \in Days :
       (ErrorBefore(i, d) /\ CronDayMatches(d) /\ DuePassed(i, d))
         => count[<<"fired", i, d>>] >= 1
  /\ \A j \in jobs : (j.pc = "auth" /\ ErrorOfOther(j)) =>
       j.t0 = (IF j.kind = "tick" THEN j.now ELSE j.due)

\* the outcome events emitted for schedule i on day d
Outcomes(i, d) ==
  count[<<"success", i, d>>] + count[<<"error", i, d>>] + count[<<"skipped", i, d>>]

\* C14: every outcome event causes at most one webhook post, none without
\* WEBHOOK_URL, and a post that fails is not made again; a failed post is not
\* thrown to the callback (no further outcome event is built for the firing);
\* once a post has failed every schedule entry still fires at its nominal
\* time; and the step that answers a webhook post, delivered or not, lets the
\* callback go on (part_000: with the next schedule entry) and changes
\* nothing else: no call is counted, the attempts of no firing change and no
\* other callback is touched.
C14_DeliveryFailureSwallowed ==
  /\ [](/\ \A i \in 1..NSched : \A d \in Days :
             /\ count[<<"post", i, d>>] <= Outcomes(i, d)
             /\ ~cfg.webhookUrl => count[<<"post", i, d>>] = 0
             /\ Outcomes(i, d) <= 1
             /\ (notifyFail /\ CronDayMatches(d) /\ DuePassed(i, d))
                   => count[<<"fired", i, d>>] >= 1
        /\ notifyFail => cfg.webhookUrl
        /\ \A j \in jobs : j.pc = "notify" =>
             /\ cfg.webhookUrl
             /\ j.status \in {"success", "error", "skipped"}
             /\ count[<<"post", j.i, j.day>>] = Outcomes(j.i, j.day))
  /\ [][\A j \in jobs : (j.pc = "notify" /\ j \notin jobs') =>
          /\ jobs' = (jobs \ {j}) \cup Continue(j)
          /\ UNCHANGED <<count, callDays, lastFiring, anyFail, cookieJar, clock>>]_vars

\* C14 witness: the webhook post of the 08:00 firing's outcome has failed
\* (the 08:01 firing has built no outcome yet) and the 08:01 firing is making
\* the clocking post of its second attempt
C14_Witness ==
  /\ notifyFail
  /\ lastFiring.i = 1
  /\ count[<<"post", 1, 0>>] = 1
  /\ count[<<"post", 2, 0>>] = 0
  /\ \A j \in jobs : j.i = 2
  /\ \E j \in jobs : j.pc = "submit" /\ j.attempt = 2

\* C15: every attempt of a firing makes its own login: the clocking post of
\* attempt n is made after n calls of authenticate().
C15_FreshTokenPerAttempt ==
  \A j \in jobs : j.pc = "submit" => j.auths = j.attempt

\* C16: within one firing the login has succeeded (authenticate() has
\* returned an access token) before any employee query or clocking post, an
\* attempt starts only when all the attempts before it have failed and the
\* delay after the last of them has run out, and one firing is one chain of
\* attempts.
C16_AuthFirstAndSequential ==
  /\ \A j \in jobs :
       /\ j.pc \in {"userdata", "submit", "delay"} => (j.auths >= 1 /\ j.token.kind = "token")
       /\ j.pc \in {"userdata", "submit"} => (j.fails = j.attempt - 1 /\ clock >= j.due)
       /\ j.pc = "delay" => j.fails = j.attempt
  /\ \A j \in jobs : \A k \in jobs :
       (Executing(j) /\ Executing(k) /\ j.i = k.i /\ j.base = k.base) => j = k

\* C17: for one schedule entry and one day the offset is drawn once.
C17_OneDrawPerDay ==
  \A i \in 1..NSched : \A d \in Days : count[<<"draw", i, d>>] <= 1

\* C18: under part_000 every schedule entry is evaluated at the instant of
\* its minute tick and a firing starts at that instant, whatever the firings
\* of the other entries are doing.
C18_NoDelayAcrossSchedules ==
  \A j \in jobs : j.kind = "tick" =>
    /\ j.pc = "loop" => clock = j.now
    /\ Executing(j) => j.t0 = j.now

\* C19: while the punch executions of two firings are under way together,
\* each of them makes its employee query and its clocking post with the token
\* of its own login: the cookie authenticate() took the token from was stored
\* by the answer of the firing's own login post.
C19_OwnToken ==
  \A j \in jobs : \A k \in jobs :
    (j # k /\ Executing(k) /\ j.pc \in {"userdata", "submit"}) => j.token.by = TokenOf(j)

\* C20: a schedule entry that fired on a day fires again on the next day
\* (every day is a day of WEEKDAYS here).
C20_FiresAgainNextDay ==
  \A i \in 1..NSched : \A d \in Days \ {0} :
    (count[<<"fired", i, d - 1>>] >= 1 /\ CronDayMatches(d) /\ DayDone(d))
      => count[<<"fired", i, d>>] >= 1

---------------------------------------------------------------------------
(* Outcome events, start instants and termination of a firing              *)

\* the callback of schedule entry i for day d has started to execute and has
\* built its outcome event (it awaits the delivery or has ended)
FiringOver(i, d) ==
  /\ count[<<"fired", i, d>>] >= 1
  /\ \A j \in jobs : (j.i = i /\ j.day = d) => j.pc = "notify"

\* C21: a firing that passed the vacation gate builds exactly one outcome
\* event: none while it executes, one once it is over; the event is a success
\* exactly when a clocking post of the firing was answered with success, and
\* a success and an error event are never both built for one firing.
C21_ExactlyOneOutcome ==
  /\ \A i \in 1..NSched : \A d \in Days :
       /\ count[<<"success", i, d>>] + count[<<"error", i, d>>] <= 1
       /\ (FiringOver(i, d) /\ count[<<"skipped", i, d>>] = 0) =>
             count[<<"success", i, d>>] + count[<<"error", i, d>>] = 1
  /\ \A j \in jobs :
       /\ Executing(j) =>
             /\ ~j.posted
             /\ count[<<"success", j.i, j.day>>] + count[<<"error", j.i, j.day>>] = 0
       /\ (j.pc = "notify" /\ j.status # "skipped") =>
             /\ (j.status = "success") = j.posted
             /\ count[<<j.status, j.i, j.day>>] = 1
  /\ Finished(lastFiring) => (lastFiring.status = "success") = lastFiring.posted

\* C21 witness: a firing whose first clocking post failed and whose second
\* one succeeded has ended with its one success event and no error event
C21_Witness ==
  /\ jobs = {}
  /\ lastFiring.status = "success"
  /\ lastFiring.posted
  /\ lastFiring.fails = 1
  /\ count[<<"success", 1, 0>>] = 1
  /\ count[<<"error", 1, 0>>] = 0

\* C22: in index.js a firing never starts before the nominal instant of its
\* day and starts less than RANDOM_OFFSET seconds after it (at the nominal
\* instant itself when RANDOM_OFFSET is 0), whatever offset was drawn: a
\* target before the nominal instant is run at the nominal instant.
C22_StartsInNominalWindow ==
  \A j \in jobs : (j.kind = "cron" /\ Executing(j)) =>
     /\ j.base = BaseTime(j.t0, j.i)
     /\ j.base <= j.t0
     /\ j.t0 <= j.base + (IF cfg.randomOffset > 0 THEN cfg.randomOffset - 1 ELSE 0)
     /\ j.pc = "auth" => j.t0 = (IF j.punchTime > j.base THEN j.punchTime ELSE j.base)

\* C22 as stated: every firing of index.js starts at an instant t with
\* nominal <= t < nominal + RANDOM_OFFSET.
C22_StartsBeforeNominalPlusJitter ==
  \A j \in jobs : (j.kind = "cron" /\ Executing(j)) =>
     /\ j.base <= j.t0
     /\ j.t0 < j.base + cfg.randomOffset

\* C22 witness: a firing whose drawn target lay before the nominal instant
\* has started at the nominal instant
C22_Witness ==
  \E j \in jobs :
     /\ j.kind = "cron"
     /\ j.pc = "auth"
     /\ j.punchTime < j.base
     /\ j.t0 = j.base

Abs(x) == IF x < 0 THEN -x ELSE x

\* C23: in part_000 every firing starts at a minute tick (second 0 of a
\* minute) that lies less than RANDOM_OFFSET + 30 seconds from the nominal
\* instant of the entry on the day of the start.
C23_StartsAtTickNearNominal ==
  \A j \in jobs : (j.kind = "tick" /\ Executing(j)) =>
     /\ j.t0 % 60 = 0
     /\ Abs(j.t0 - BaseTime(j.t0, j.i)) < cfg.randomOffset + HalfWindow

\* C24: in index.js no firing makes its login at an instant at which
\* isVacationPeriod() returns true: the gate passed at the cron instant still
\* holds at the instant the timer callback starts.
C24_NoCallDuringVacation ==
  \A j \in jobs : (j.kind = "cron" /\ Executing(j)) =>
     \A late \in BOOLEAN : ~IsVacationPeriodAt(cfg, j.t0, late)

\* the largest number of attempts punchClock can make: attempt n + 1 is made
\* only when n < MAX_RETRIES holds
MaxAttempts ==
  IF cfg.maxRetries = NaN \/ cfg.maxRetries < 1 THEN 1 ELSE cfg.maxRetries

\* an upper bound of the remote calls and waits a callback still has to make
\* before it ends
StepsLeft(j) ==
  CASE j.pc = "timer" -> 3 * MaxAttempts + 3
    [] j.pc = "auth" -> 3 * MaxAttempts + 2
    [] j.pc = "userdata" -> 3 * (MaxAttempts - j.attempt) + 4
    [] j.pc = "submit" -> 3 * (MaxAttempts - j.attempt) + 3
    [] j.pc = "delay" -> 3 * (MaxAttempts - j.attempt) + 2
    [] OTHER -> 1

\* C25: every firing terminates, for every MAX_RETRIES (no number, negative,
\* 0 or positive): it makes at most max(MAX_RETRIES, 1) attempts and waits
\* for a retry only when another attempt is allowed; every answer of a remote
\* call and every timer that fires takes the callback strictly closer to its
\* end; and a firing that is over has built its one outcome event.
C25_FiringTerminates ==
  /\ [](\A j \in jobs :
          /\ j.attempt <= MaxAttempts
          /\ j.pc = "delay" => j.attempt < MaxAttempts
          /\ StepsLeft(j) >= 1)
  /\ [][\A j \in jobs : \A k \in jobs' : k # j => StepsLeft(k) < StepsLeft(j)]_vars
  /\ [](\A i \in 1..NSched : \A d \in Days :
          FiringOver(i, d) =>
            count[<<"success", i, d>>] + count[<<"error", i, d>>] = 1)

\* C25 witness: with MAX_RETRIES = 0 a firing whose one clocking post failed
\* has ended with its error outcome
C25_Witness ==
  /\ cfg.maxRetries = 0
  /\ jobs = {}
  /\ lastFiring.status = "error"
  /\ lastFiring.authOk
  /\ lastFiring.attempt = 1
  /\ lastFiring.fails = 1
  /\ count[<<"error", 1, 0>>] = 1

====
